---- MODULE Spec2Model ----
(***************************************************************************)
(* mkwd: the project scaffolder of src/mkwd.py.                            *)
(*                                                                         *)
(* A filesystem is a function from absolute paths (sequences of path       *)
(* components below "/") to entries.  A project name is the sequence of    *)
(* its lexical tokens: path components and the separator "/".  A file      *)
(* content is a sequence of strings: <<>> is the empty file "", a one      *)
(* element sequence is a literal or the text of one template method, and   *)
(* the README is its template followed by the project name it embeds.      *)
(***************************************************************************)
EXTENDS Integers, Sequences, FiniteSets, TLC

\* ------------------------------------------------------------------ bounds

\* Number of invocations in one behaviour.
NumProcs == 2
\* Synthetic trees given to _build_structure: number of nodes below the root.
MaxNodes == 4
\* Concurrent invocations: how often the processor passes from one running
\* invocation to another.
MaxSwitches == 2

Procs == 1..NumProcs

\* ------------------------------------------------------------------- paths

SEP == "/"
DOTDOT == ".."

\* Path.cwd(): the working directory the tool is started in.
Cwd == <<"home", "work">>

\* The project names tried: a plain name, a parent reference, an absolute
\* path, a nested relative path, and the bare parent reference.
ProjectNames ==
  { <<"demo">>,
    <<DOTDOT, SEP, "evil">>,
    <<SEP, "srv", SEP, "app">>,
    <<"a", SEP, "b">>,
    <<DOTDOT>> }

\* pathlib's parsing of a path string into its components: the text between
\* separators, empty components dropped.
RECURSIVE Components(_)
Components(name) ==
  IF name = <<>> THEN <<>>
  ELSE IF Head(name) = SEP THEN Components(Tail(name))
  ELSE <<Head(name)>> \o Components(Tail(name))

IsAbsolute(name) == name /= <<>> /\ Head(name) = SEP

\* Path.cwd() / project_name: an absolute right operand replaces the left one.
JoinCwd(name) ==
  IF IsAbsolute(name) THEN Components(name) ELSE Cwd \o Components(name)

\* The kernel's walk of a path whose prefixes exist: ".." steps to the
\* parent directory, and the parent of "/" is "/".
RECURSIVE ResolveFrom(_, _)
ResolveFrom(done, rest) ==
  IF rest = <<>> THEN done
  ELSE IF Head(rest) = DOTDOT
       THEN ResolveFrom(IF done = <<>> THEN <<>> ELSE SubSeq(done, 1, Len(done) - 1),
                        Tail(rest))
       ELSE ResolveFrom(Append(done, Head(rest)), Tail(rest))

Resolve(path) == ResolveFrom(<<>>, path)

Parent(path) == SubSeq(path, 1, Len(path) - 1)

IsPrefix(a, b) == Len(a) <= Len(b) /\ SubSeq(b, 1, Len(a)) = a

\* the path printed as it is
NotRelative(path, root) == path

\* filepath.relative_to(self.project_root)
RelativeTo(path, root) == SubSeq(path, Len(root) + 1, Len(path))

\* -------------------------------------------------------------- filesystem

DirEntry == [kind |-> "dir", content |-> <<>>]
FileEntry(content) == [kind |-> "file", content |-> content]

\* the test inverted
NotExists(f, path) == Resolve(path) \notin DOMAIN f

\* Path.exists()
Exists(f, path) == Resolve(path) \in DOMAIN f

IsDir(f, r) == r \in DOMAIN f /\ f[r].kind = "dir"

\* mkdir of one resolved path whose ancestors are created first when they
\* are missing; an existing directory is accepted, an existing file or a
\* file among the ancestors is an error.  What was created before an error
\* stays.
RECURSIVE MkdirResolved(_, _)
MkdirResolved(f, r) ==
  IF r \in DOMAIN f THEN [ok |-> f[r].kind = "dir", fs |-> f]
  ELSE LET up == MkdirResolved(f, Parent(r)) IN
       IF up.ok THEN [ok |-> TRUE, fs |-> (r :> DirEntry) @@ up.fs]
       ELSE up

\* mkdir(parents=True) without exist_ok: an existing path is an error
MkdirPStrict(f, path) ==
  IF Resolve(path) \in DOMAIN f THEN [ok |-> FALSE, fs |-> f]
  ELSE MkdirResolved(f, Resolve(path))

\* path.mkdir(parents=True, exist_ok=True)
MkdirP(f, path) == MkdirResolved(f, Resolve(path))

\* open(filepath, 'x'): an existing file is an error
OpenExclusive(f, path, content) ==
  LET r == Resolve(path) IN
  IF r \in DOMAIN f \/ ~IsDir(f, Parent(r)) THEN [ok |-> FALSE, fs |-> f]
  ELSE [ok |-> TRUE, fs |-> (r :> FileEntry(content)) @@ f]

\* open(filepath, 'w') then f.write(content): creates the file or truncates
\* it; fails on a directory and when the parent is not a directory.
OpenWrite(f, path, content) ==
  LET r == Resolve(path) IN
  IF IsDir(f, r) \/ ~IsDir(f, Parent(r)) THEN [ok |-> FALSE, fs |-> f]
  ELSE [ok |-> TRUE, fs |-> (r :> FileEntry(content)) @@ f]

\* ----------------------------------------------------------------- catalog

\* A tree node: a file with its content, or a directory with its children
\* as an ordered mapping (a sequence of <<name, node>> with distinct names).
File(content) == [kind |-> "file", content |-> content, children |-> <<>>]
Dir(children) == [kind |-> "dir", content |-> <<>>, children |-> children]

Empty == <<>>
Text(t) == <<t>>

\* the README embeds the project name
ReadmeOf(name) == <<"_get_readme">> \o name

PortfolioStructure ==
  Dir(<<
    <<"app", Dir(<<
      <<"__init__.py", File(Text("_get_app_init"))>>,
      <<"main.py", File(Text("_get_main_py"))>>,
      <<"config.py", File(Text("_get_config_py"))>>,
      <<"dependencies.py", File(Empty)>>,
      <<"api", Dir(<<
        <<"__init__.py", File(Empty)>>,
        <<"routes", Dir(<<
          <<"__init__.py", File(Empty)>>,
          <<"pages.py", File(Text("_get_pages_routes"))>>,
          <<"chatbot.py", File(Text("_get_chatbot_routes"))>>,
          <<"email.py", File(Text("_get_email_routes"))>>,
          <<"contact.py", File(Text("_get_contact_routes"))>>,
          <<"analytics.py", File(Text("_get_analytics_routes"))>> >>)>>,
        <<"middleware", Dir(<<
          <<"__init__.py", File(Empty)>>,
          <<"analytics.py", File(Text("_get_analytics_middleware"))>>,
          <<"security.py", File(Text("_get_security_middleware"))>>,
          <<"error.py", File(Empty)>> >>)>> >>)>>,
      <<"core", Dir(<<
        <<"__init__.py", File(Empty)>>,
        <<"graphrag.py", File(Text("# Your GraphRAG implementation goes here"))>>,
        <<"document_processor.py", File(Text("# Your document processor goes here"))>>,
        <<"knowledgegraph.py", File(Text("# Your knowledge graph goes here"))>>,
        <<"queryengine.py", File(Text("# Your query engine goes here"))>>,
        <<"email_generator.py", File(Text("# Your email generator goes here"))>> >>)>>,
      <<"database", Dir(<<
        <<"__init__.py", File(Empty)>>,
        <<"models.py", File(Text("_get_models_py"))>>,
        <<"connection.py", File(Text("_get_connection_py"))>>,
        <<"crud.py", File(Text("# CRUD operations go here"))>> >>)>>,
      <<"utils", Dir(<<
        <<"__init__.py", File(Empty)>>,
        <<"session.py", File(Empty)>>,
        <<"validators.py", File(Empty)>> >>)>> >>)>>,
    <<"static", Dir(<<
      <<"css", Dir(<<
        <<"base.css", File(Text("_get_base_css"))>>,
        <<"components.css", File(Empty)>>,
        <<"utils.css", File(Empty)>>,
        <<"pages", Dir(<<
          <<"home.css", File(Empty)>>,
          <<"portfolio.css", File(Empty)>>,
          <<"chatbot.css", File(Empty)>>,
          <<"contact.css", File(Empty)>> >>)>> >>)>>,
      <<"js", Dir(<<
        <<"main.js", File(Text("_get_main_js"))>>,
        <<"components", Dir(<<
          <<"navbar.js", File(Empty)>>,
          <<"footer.js", File(Empty)>>,
          <<"typing-effect.js", File(Empty)>> >>)>>,
        <<"pages", Dir(<<
          <<"chatbot.js", File(Empty)>>,
          <<"email.js", File(Empty)>>,
          <<"contact.js", File(Empty)>> >>)>> >>)>>,
      <<"img", Dir(<<
        <<"logo", Dir(<<>>)>>,
        <<"projects", Dir(<<>>)>>,
        <<"backgrounds", Dir(<<>>)>> >>)>> >>)>>,
    <<"templates", Dir(<<
      <<"base.html", File(Text("_get_base_template"))>>,
      <<"components", Dir(<<
        <<"navbar.html", File(Text("_get_navbar_component"))>>,
        <<"footer.html", File(Text("_get_footer_component"))>>,
        <<"project-card.html", File(Empty)>> >>)>>,
      <<"pages", Dir(<<
        <<"home.html", File(Text("_get_home_page"))>>,
        <<"about.html", File(Empty)>>,
        <<"portfolio.html", File(Empty)>>,
        <<"chatbot.html", File(Empty)>>,
        <<"email-generator.html", File(Empty)>>,
        <<"project-details", Dir(<<
          <<"cancer-prediction.html", File(Empty)>>,
          <<"cold-email.html", File(Empty)>>,
          <<"object-detection.html", File(Empty)>> >>)>> >>)>> >>)>>,
    <<"tests", Dir(<<
      <<"__init__.py", File(Empty)>>,
      <<"test_api.py", File(Empty)>>,
      <<"test_database.py", File(Empty)>>,
      <<"test_ml.py", File(Empty)>> >>)>>,
    <<"alembic", Dir(<<
      <<"versions", Dir(<<>>)>>,
      <<"env.py", File(Empty)>> >>)>> >>)

\* the files _create_portfolio_structure writes into the root after the tree
PortfolioRootFiles(name) ==
  << <<".env.example", File(Text("_get_env_example"))>>,
     <<".gitignore", File(Text("_get_gitignore"))>>,
     <<"requirements.txt", File(Text("_get_requirements"))>>,
     <<"README.md", File(ReadmeOf(name))>>,
     <<"Dockerfile", File(Text("_get_dockerfile"))>>,
     <<"docker-compose.yml", File(Text("_get_docker_compose"))>>,
     <<"run.py", File(Text("_get_run_py"))>> >>

ApiStructure ==
  Dir(<<
    <<"app", Dir(<<
      <<"__init__.py", File(Empty)>>,
      <<"main.py", File(Text("_get_main_py"))>>,
      <<"config.py", File(Text("_get_config_py"))>>,
      <<"api", Dir(<<
        <<"__init__.py", File(Empty)>>,
        <<"routes", Dir(<<
          <<"__init__.py", File(Empty)>>,
          <<"users.py", File(Empty)>>,
          <<"auth.py", File(Empty)>> >>)>> >>)>>,
      <<"database", Dir(<<
        <<"__init__.py", File(Empty)>>,
        <<"models.py", File(Empty)>>,
        <<"connection.py", File(Text("_get_connection_py"))>> >>)>> >>)>>,
    <<"tests", Dir(<<
      <<"__init__.py", File(Empty)>>,
      <<"test_api.py", File(Empty)>> >>)>> >>)

\* the files _create_api_structure writes into the root after the tree
ApiRootFiles(name) ==
  << <<".env.example", File(Text("_get_env_example"))>>,
     <<".gitignore", File(Text("_get_gitignore"))>>,
     <<"requirements.txt", File(Text("_get_requirements"))>>,
     <<"README.md", File(ReadmeOf(name))>> >>

\* argparse's choices for --type, and the types create() dispatches on
TypeChoices == {"portfolio", "api", "fullstack"}
\* a type outside the catalog
UnknownType == "mobile"
AllTypes == TypeChoices \union {UnknownType}

\* every type given the portfolio structure
AlwaysPortfolio(type) == PortfolioStructure

\* every type given the api structure
AlwaysApi(type) == ApiStructure

\* the portfolio structure with a frontend directory added
FullstackWithFrontend ==
  Dir(Append(PortfolioStructure.children,
             <<"frontend", Dir(<< <<"package.json", File(Empty)>> >>)>>))

\* _create_fullstack_structure: the call of _create_portfolio_structure
FullstackStructure == PortfolioStructure
FullstackRootFiles(name) == PortfolioRootFiles(name)

\* the structure and the root files the _create_*_structure method of a
\* type builds
StructureOf(type) ==
  CASE type = "api" -> ApiStructure
    [] type = "fullstack" -> FullstackStructure
    [] OTHER -> PortfolioStructure
RootFilesOf(type, name) ==
  CASE type = "api" -> ApiRootFiles(name)
    [] type = "fullstack" -> FullstackRootFiles(name)
    [] OTHER -> PortfolioRootFiles(name)

\* ------------------------------------------------------------------- state

VARIABLES
  fs,            \* the filesystem: resolved path -> entry
  target,        \* the project name every invocation of the behaviour is given
  pc,            \* where each invocation is
  project_type,  \* ProjectScaffolder.project_type
  project_root,  \* ProjectScaffolder.project_root, as joined (not resolved)
  structure,     \* the tree handed to _build_structure
  rootExisted,   \* what self.project_root.exists() returned
  todo,          \* the pending iterations of _build_structure and the pending
                 \* _create_file calls, in program order
  out,           \* the lines printed
  exitStatus,    \* the process exit status, -1 while running
  created,       \* history: the resolved paths the invocation brought into existence
  wrote,         \* history: the resolved paths the invocation opened for writing
  checks,        \* history: how often the invocation tested the root's existence
  calls,         \* history: the mkdir and open-for-writing calls the invocation
                 \* made, in order, each with the paths it brought into existence
  running,       \* scheduler: the invocation that took the last step, 0 at first
  switches       \* scheduler: how often the running invocation has changed

vars == <<fs, target, pc, project_type, project_root, structure, rootExisted, todo, out,
          exitStatus, created, wrote, checks, calls>>
sched == <<running, switches>>
allvars == <<vars, sched>>

Terminal == {"Done", "AbortedExists", "AbortedType", "AbortedIO", "UsageError", "Returned"}
Aborted == {"AbortedExists", "AbortedType", "AbortedIO"}

\* the lines the tool prints
BannerLine(type) == <<"Creating", type, "project">>
ExistsLine == <<"Error: Directory already exists!">>
UnknownLine == <<"Unknown project type">>
SummaryLine == <<"created successfully", "Location", "Next steps">>
CreatedLine(rel) == <<"Created:">> \o rel

\* the filesystem the tool is started in: the working directory, and
\* optionally something at the place of the project root
BaseFs == (<<>> :> DirEntry) @@ (<<"home">> :> DirEntry) @@ (Cwd :> DirEntry)

InitialFs(name) ==
  LET r == Resolve(JoinCwd(name))
      withDir == MkdirResolved(BaseFs, r).fs
  IN  { BaseFs,
        (Append(r, "keep.txt") :> FileEntry(Text("precious"))) @@ withDir,
        IF r \in DOMAIN BaseFs THEN BaseFs
        ELSE (r :> FileEntry(Text("precious"))) @@ MkdirResolved(BaseFs, Parent(r)).fs }

InitProcs ==
  /\ pc = [p \in Procs |-> "Start"]
  /\ project_type = [p \in Procs |-> "portfolio"]
  /\ project_root = [p \in Procs |-> <<>>]
  /\ structure = [p \in Procs |-> Dir(<<>>)]
  /\ rootExisted = [p \in Procs |-> FALSE]
  /\ todo = [p \in Procs |-> <<>>]
  /\ out = [p \in Procs |-> <<>>]
  /\ exitStatus = [p \in Procs |-> -1]
  /\ created = [p \in Procs |-> {}]
  /\ wrote = [p \in Procs |-> {}]
  /\ checks = [p \in Procs |-> 0]
  /\ calls = [p \in Procs |-> <<>>]
  /\ running = 0
  /\ switches = 0

Init ==
  /\ target \in ProjectNames
  /\ fs \in InitialFs(target)
  /\ InitProcs

\* ----------------------------------------------------------------- actions

\* ProjectScaffolder.__init__
Construct(p, type) ==
  /\ pc' = [pc EXCEPT ![p] = "Idle"]
  /\ project_type' = [project_type EXCEPT ![p] = type]
  /\ project_root' = [project_root EXCEPT ![p] = JoinCwd(target)]
  /\ UNCHANGED <<fs, target, structure, rootExisted, todo, out, exitStatus, created, wrote, calls, checks>>

\* main(): argparse rejects a --type outside its choices with a usage error
\* (status 2); otherwise the scaffolder is constructed.
Main(p, types) ==
  /\ pc[p] = "Start"
  /\ \E type \in types :
       IF type \in TypeChoices THEN Construct(p, type)
       ELSE /\ pc' = [pc EXCEPT ![p] = "UsageError"]
            /\ exitStatus' = [exitStatus EXCEPT ![p] = 2]
            /\ UNCHANGED <<fs, target, structure, project_type, project_root, rootExisted, todo,
                           out, created, wrote, calls, checks>>

\* ProjectScaffolder(name, type) built by a caller of the module: no check
\* of the type.
Scaffolder(p, types) ==
  /\ pc[p] = "Start"
  /\ \E type \in types : Construct(p, type)

\* create() without the test of the root
PreflightNoCheck(p) ==
  /\ pc[p] = "Idle"
  /\ pc' = [pc EXCEPT ![p] = "PreflightChecked"]
  /\ rootExisted' = [rootExisted EXCEPT ![p] = FALSE]
  /\ out' = [out EXCEPT ![p] = Append(@, BannerLine(project_type[p]))]
  /\ UNCHANGED <<fs, target, structure, project_type, project_root, todo, exitStatus,
                 created, wrote, calls, checks>>

\* create(): the banner and the evaluation of self.project_root.exists()
Preflight(p) ==
  /\ pc[p] = "Idle"
  /\ pc' = [pc EXCEPT ![p] = "PreflightChecked"]
  /\ rootExisted' = [rootExisted EXCEPT ![p] = Exists(fs, project_root[p])]
  /\ checks' = [checks EXCEPT ![p] = @ + 1]
  /\ out' = [out EXCEPT ![p] = Append(@, BannerLine(project_type[p]))]
  /\ UNCHANGED <<fs, target, structure, project_type, project_root, todo, exitStatus, created, wrote, calls>>

\* create(): the root exists: error line and sys.exit(1)
AbortExists(p) ==
  /\ pc[p] = "PreflightChecked"
  /\ rootExisted[p]
  /\ pc' = [pc EXCEPT ![p] = "AbortedExists"]
  /\ out' = [out EXCEPT ![p] = Append(@, ExistsLine)]
  /\ exitStatus' = [exitStatus EXCEPT ![p] = 1]
  /\ UNCHANGED <<fs, target, structure, project_type, project_root, rootExisted, todo, created,
                 wrote, calls, checks>>

\* the iterations taken from the last name of the mapping to the first
BuildItemsReversed(base_path, content) ==
  [i \in 1..Len(content.children) |->
     [op |-> "build",
      path |-> Append(base_path, content.children[Len(content.children) + 1 - i][1]),
      node |-> content.children[Len(content.children) + 1 - i][2]]]

\* the iterations of _build_structure(base, structure), in the mapping's order
BuildItems(base_path, content) ==
  [i \in 1..Len(content.children) |->
     [op |-> "build", path |-> Append(base_path, content.children[i][1]),
      node |-> content.children[i][2]]]

\* the _create_file calls that follow _build_structure in _create_*_structure
RootFileItems(base, files) ==
  [i \in 1..Len(files) |->
     [op |-> "create_file", path |-> Append(base, files[i][1]), node |-> files[i][2]]]

\* _create_portfolio_structure, _create_api_structure, _create_fullstack_structure
CreateStructure(type, root, name) ==
  BuildItems(root, StructureOf(type)) \o RootFileItems(root, RootFilesOf(type, name))

\* create(): the dispatch on the type, for a type of the catalog
Dispatch(p) ==
  /\ pc[p] = "PreflightChecked"
  /\ ~rootExisted[p]
  /\ project_type[p] \in TypeChoices
  /\ pc' = [pc EXCEPT ![p] = "Materializing"]
  /\ structure' = [structure EXCEPT ![p] = StructureOf(project_type[p])]
  /\ todo' = [todo EXCEPT ![p] = CreateStructure(project_type[p], project_root[p], target)]
  /\ UNCHANGED <<fs, target, project_type, project_root, rootExisted, out, exitStatus,
                 created, wrote, calls, checks>>

\* create(): the else branch of the dispatch: error line and sys.exit(1)
UnknownTypeExit(p) ==
  /\ pc[p] = "PreflightChecked"
  /\ ~rootExisted[p]
  /\ project_type[p] \notin TypeChoices
  /\ pc' = [pc EXCEPT ![p] = "AbortedType"]
  /\ out' = [out EXCEPT ![p] = Append(@, UnknownLine)]
  /\ exitStatus' = [exitStatus EXCEPT ![p] = 1]
  /\ UNCHANGED <<fs, target, structure, project_type, project_root, rootExisted, todo, created,
                 wrote, calls, checks>>

\* one call in the history: the resolved path it was given and the paths
\* that exist after it and did not before
Call(op, path, made) == [op |-> op, path |-> Resolve(path), made |-> made]

\* an exception handler that removes what the invocation had created
RaiseRollback(p, f) ==
  /\ fs' = [x \in DOMAIN fs \ created[p] |-> fs[x]]
  /\ pc' = [pc EXCEPT ![p] = "AbortedIO"]
  /\ exitStatus' = [exitStatus EXCEPT ![p] = 1]
  /\ created' = [created EXCEPT ![p] = {}]
  /\ UNCHANGED <<target, structure, project_type, project_root, rootExisted, todo, out,
                 wrote, calls, checks>>

\* an exception leaves create(): traceback, exit status 1
Raise(p, f) ==
  /\ fs' = f
  /\ pc' = [pc EXCEPT ![p] = "AbortedIO"]
  /\ exitStatus' = [exitStatus EXCEPT ![p] = 1]
  /\ created' = [created EXCEPT ![p] = @ \union (DOMAIN f \ DOMAIN fs)]
  /\ calls' = [calls EXCEPT ![p] =
                 Append(@, Call("failed", Head(todo[p]).path, DOMAIN f \ DOMAIN fs))]
  /\ UNCHANGED <<target, structure, project_type, project_root, rootExisted, todo, out, wrote, checks>>

\* _build_structure, a directory: path.mkdir(parents=True, exist_ok=True),
\* then the recursive call on its content
BuildDir(p) ==
  /\ pc[p] = "Materializing"
  /\ todo[p] /= <<>>
  /\ LET it == Head(todo[p])
         r == MkdirP(fs, it.path)
     IN  /\ it.op = "build"
         /\ it.node.kind = "dir"
         /\ IF r.ok
            THEN /\ fs' = r.fs
                 /\ todo' = [todo EXCEPT ![p] = BuildItems(it.path, it.node) \o Tail(@)]
                 /\ created' = [created EXCEPT ![p] = @ \union (DOMAIN r.fs \ DOMAIN fs)]
                 /\ calls' = [calls EXCEPT ![p] =
                                Append(@, Call("mkdir", it.path, DOMAIN r.fs \ DOMAIN fs))]
                 /\ UNCHANGED <<target, structure, pc, project_type, project_root, rootExisted, out,
                                exitStatus, wrote, checks>>
            ELSE Raise(p, r.fs)

\* _create_file(filepath, content): open, write, then the progress line
CreateFileIn(p, f, it) ==
  LET w == OpenWrite(f, it.path, it.node.content)
      parent == IF it.op = "build"
                THEN <<Call("mkdir", Parent(it.path), DOMAIN f \ DOMAIN fs)>>
                ELSE <<>>
  IN
  IF w.ok
  THEN /\ fs' = w.fs
       /\ calls' = [calls EXCEPT ![p] =
                      @ \o parent \o <<Call("write", it.path, DOMAIN w.fs \ DOMAIN f)>>]
       /\ todo' = [todo EXCEPT ![p] = Tail(@)]
       /\ created' = [created EXCEPT ![p] = @ \union (DOMAIN w.fs \ DOMAIN fs)]
       /\ wrote' = [wrote EXCEPT ![p] = @ \union {Resolve(it.path)}]
       /\ out' = [out EXCEPT ![p] = Append(@, CreatedLine(RelativeTo(it.path, project_root[p])))]
       /\ UNCHANGED <<target, structure, pc, project_type, project_root, rootExisted, exitStatus, checks>>
  ELSE Raise(p, w.fs)

\* _build_structure, a file: path.parent.mkdir(parents=True, exist_ok=True),
\* then _create_file(path, content)
BuildFile(p) ==
  /\ pc[p] = "Materializing"
  /\ todo[p] /= <<>>
  /\ LET it == Head(todo[p])
         r == MkdirP(fs, Parent(it.path))
     IN  /\ it.op = "build"
         /\ it.node.kind = "file"
         /\ IF r.ok THEN CreateFileIn(p, r.fs, it) ELSE Raise(p, r.fs)

\* a root-level _create_file call of _create_*_structure
CreateFile(p) ==
  /\ pc[p] = "Materializing"
  /\ todo[p] /= <<>>
  /\ LET it == Head(todo[p])
     IN  /\ it.op = "create_file"
         /\ CreateFileIn(p, fs, it)

\* The operating system refuses the pending mkdir or open (permission
\* denied, disk full): at once, or after mkdir created some of the missing
\* ancestors; or it accepts the open and refuses the write, which leaves the
\* file created and empty.
IOFault(p) ==
  /\ pc[p] = "Materializing"
  /\ todo[p] /= <<>>
  /\ LET it == Head(todo[p])
         w == OpenWrite(fs, it.path, Empty)
         dir == IF it.op = "build" /\ it.node.kind = "file" THEN Parent(it.path) ELSE it.path
     IN  \/ Raise(p, fs)
         \/ \E n \in 1..(Len(Resolve(dir)) - 1) :
              /\ it.op = "build"
              /\ SubSeq(Resolve(dir), 1, n) \notin DOMAIN fs
              /\ MkdirResolved(fs, SubSeq(Resolve(dir), 1, n)).ok
              /\ Raise(p, MkdirResolved(fs, SubSeq(Resolve(dir), 1, n)).fs)
         \/ /\ it.node.kind = "file"
            /\ w.ok
            /\ Raise(p, w.fs)

\* create(): the success summary after the structure is built
Summary(p) ==
  /\ pc[p] = "Materializing"
  /\ todo[p] = <<>>
  /\ pc' = [pc EXCEPT ![p] = "Done"]
  /\ out' = [out EXCEPT ![p] = Append(@, SummaryLine)]
  /\ exitStatus' = [exitStatus EXCEPT ![p] = 0]
  /\ UNCHANGED <<fs, target, structure, project_type, project_root, rootExisted, todo, created,
                 wrote, calls, checks>>

\* ------------------------------------------- _build_structure called alone

\* the synthetic trees: names and contents of their nodes
TreeNames == {"a", "b"}
Contents == {Empty, Text("x")}

\* NodesUpTo(n): the nodes that are, with all below them, at most n nodes;
\* MappingsUpTo(n): the ordered mappings of distinct names to nodes that
\* are at most n nodes together.
RECURSIVE NodesUpTo(_), MappingsUpTo(_)
NodesUpTo(n) ==
  IF n < 1 THEN {}
  ELSE { File(c) : c \in Contents } \union { Dir(m) : m \in MappingsUpTo(n - 1) }
MappingsUpTo(n) ==
  {<<>>}
    \union { << <<name, x>> >> : name \in TreeNames, x \in NodesUpTo(n) }
    \union UNION { { << <<m[1], x>>, <<m[2], y>> >> :
                       m \in {t \in TreeNames \X TreeNames : t[1] /= t[2]},
                       x \in NodesUpTo(k), y \in NodesUpTo(n - k) } : k \in 1..(n - 1) }

Trees == { Dir(m) : m \in MappingsUpTo(MaxNodes) }

\* scaffolder._build_structure(scaffolder.project_root, tree) from a caller
BuildCall(p) ==
  /\ pc[p] = "Start"
  /\ \E tree \in Trees :
       /\ structure' = [structure EXCEPT ![p] = tree]
       /\ todo' = [todo EXCEPT ![p] = BuildItems(JoinCwd(target), tree)]
  /\ pc' = [pc EXCEPT ![p] = "Materializing"]
  /\ project_root' = [project_root EXCEPT ![p] = JoinCwd(target)]
  /\ UNCHANGED <<fs, target, project_type, rootExisted, out, exitStatus, created, wrote, calls,
                 checks>>

\* _build_structure returns to that caller
BuildReturn(p) ==
  /\ pc[p] = "Materializing"
  /\ todo[p] = <<>>
  /\ pc' = [pc EXCEPT ![p] = "Returned"]
  /\ UNCHANGED <<fs, target, project_type, project_root, structure, rootExisted, todo,
                 out, exitStatus, created, wrote, calls, checks>>

InitTree ==
  /\ target = <<"demo">>
  /\ fs \in {BaseFs, MkdirP(BaseFs, JoinCwd(target)).fs}
  /\ InitProcs

NextTree ==
  \/ BuildCall(1) /\ UNCHANGED sched
  \/ BuildDir(1) /\ UNCHANGED sched
  \/ BuildFile(1) /\ UNCHANGED sched
  \/ BuildReturn(1) /\ UNCHANGED sched

SpecTree == InitTree /\ [][NextTree]_allvars

\* invocations one after the other: the next one starts when no other runs
NoneRunning == \A q \in Procs : pc[q] \in Terminal \union {"Start"}
InOrder(p) == \A q \in Procs : q < p => pc[q] \in Terminal

Next ==
  \/ \E p \in Procs : NoneRunning /\ InOrder(p) /\ Main(p, AllTypes) /\ UNCHANGED sched
  \/ \E p \in Procs : NoneRunning /\ InOrder(p) /\ Scaffolder(p, AllTypes) /\ UNCHANGED sched
  \/ \E p \in Procs : Preflight(p) /\ UNCHANGED sched
  \/ \E p \in Procs : AbortExists(p) /\ UNCHANGED sched
  \/ \E p \in Procs : Dispatch(p) /\ UNCHANGED sched
  \/ \E p \in Procs : UnknownTypeExit(p) /\ UNCHANGED sched
  \/ \E p \in Procs : BuildDir(p) /\ UNCHANGED sched
  \/ \E p \in Procs : BuildFile(p) /\ UNCHANGED sched
  \/ \E p \in Procs : CreateFile(p) /\ UNCHANGED sched
  \/ \E p \in Procs : Summary(p) /\ UNCHANGED sched
  \/ \E p \in Procs : IOFault(p) /\ UNCHANGED sched

Spec == Init /\ [][Next]_allvars

\* one invocation alone, of any type, on any of the names and starting
\* filesystems
NextSingle ==
  \/ Main(1, AllTypes) /\ UNCHANGED sched
  \/ Scaffolder(1, AllTypes) /\ UNCHANGED sched
  \/ Preflight(1) /\ UNCHANGED sched
  \/ AbortExists(1) /\ UNCHANGED sched
  \/ Dispatch(1) /\ UNCHANGED sched
  \/ UnknownTypeExit(1) /\ UNCHANGED sched
  \/ BuildDir(1) /\ UNCHANGED sched
  \/ BuildFile(1) /\ UNCHANGED sched
  \/ CreateFile(1) /\ UNCHANGED sched
  \/ Summary(1) /\ UNCHANGED sched
  \/ IOFault(1) /\ UNCHANGED sched

SpecSingle == Init /\ [][NextSingle]_allvars

\* a started invocation runs on: the interpreter executes create() to its
\* end, to sys.exit or to an exception
RunStep(p) ==
  \/ Preflight(p) /\ UNCHANGED sched
  \/ AbortExists(p) /\ UNCHANGED sched
  \/ Dispatch(p) /\ UNCHANGED sched
  \/ UnknownTypeExit(p) /\ UNCHANGED sched
  \/ BuildDir(p) /\ UNCHANGED sched
  \/ BuildFile(p) /\ UNCHANGED sched
  \/ CreateFile(p) /\ UNCHANGED sched
  \/ Summary(p) /\ UNCHANGED sched

FairSpec == Spec /\ \A p \in Procs : WF_allvars(RunStep(p))

\* Invocations started at any time and running side by side in one working
\* directory on one name, the root absent at first.  Every system call is
\* one step; the processor passes from one invocation to another at most
\* MaxSwitches times.
ConcTypes == {"api", UnknownType}

InitConc ==
  /\ target = <<"demo">>
  /\ fs = BaseFs
  /\ InitProcs

Scheduled(p) ==
  /\ running' = p
  /\ switches' = IF running \in {0, p} THEN switches ELSE switches + 1
  /\ switches' <= MaxSwitches

NextConc ==
  \/ \E p \in Procs : Main(p, ConcTypes) /\ Scheduled(p)
  \/ \E p \in Procs : Scaffolder(p, ConcTypes) /\ Scheduled(p)
  \/ \E p \in Procs : Preflight(p) /\ Scheduled(p)
  \/ \E p \in Procs : AbortExists(p) /\ Scheduled(p)
  \/ \E p \in Procs : Dispatch(p) /\ Scheduled(p)
  \/ \E p \in Procs : UnknownTypeExit(p) /\ Scheduled(p)
  \/ \E p \in Procs : BuildDir(p) /\ Scheduled(p)
  \/ \E p \in Procs : BuildFile(p) /\ Scheduled(p)
  \/ \E p \in Procs : CreateFile(p) /\ Scheduled(p)
  \/ \E p \in Procs : Summary(p) /\ Scheduled(p)

SpecConc == InitConc /\ [][NextConc]_allvars

\* ------------------------------------------------------------------ claims

\* the project root of p is on disk
RootOnDisk(p) == Resolve(project_root[p]) \in DOMAIN fs

\* C1: when the project root exists as create() tests it, whatever the
\* type, the test reports it, the invocation ends in Aborted(AlreadyExists)
\* with exit status 1, and no step of it changes the filesystem: it creates
\* nothing and writes nothing.
C1_ExistingRootAborts ==
  [][\A p \in Procs :
       /\ (pc[p] = "Idle" /\ RootOnDisk(p) /\ pc'[p] /= "Idle")
            => (rootExisted'[p] /\ pc'[p] = "PreflightChecked" /\ fs' = fs)
       /\ (pc[p] = "PreflightChecked" /\ rootExisted[p] /\ pc'[p] /= "PreflightChecked")
            => /\ pc'[p] = "AbortedExists"
               /\ exitStatus'[p] = 1
               /\ fs' = fs
               /\ created'[p] = {}
               /\ wrote'[p] = {}
       /\ (pc[p] = "AbortedExists")
            => (pc'[p] = "AbortedExists" /\ created'[p] = {} /\ wrote'[p] = {})
    ]_vars

\* an invocation aborted on a root that was there before the first
\* invocation, whose content is still on disk
C1_Witness ==
  \E p \in Procs :
    /\ pc[p] = "AbortedExists"
    /\ exitStatus[p] = 1
    /\ \A q \in Procs : created[q] = {}
    /\ Append(Resolve(project_root[p]), "keep.txt") \in DOMAIN fs
    /\ fs[Append(Resolve(project_root[p]), "keep.txt")] = FileEntry(Text("precious"))

\* what a node is on disk
EntryOf(node) == IF node.kind = "dir" THEN DirEntry ELSE FileEntry(node.content)

\* the nodes of a tree placed at a path: <<path, entry>> for the node and
\* for every node below it
RECURSIVE NodeEntries(_, _)
NodeEntries(path, node) ==
  {<<path, EntryOf(node)>>}
    \union UNION { NodeEntries(Append(path, node.children[i][1]), node.children[i][2]) :
                     i \in 1..Len(node.children) }

\* the root of p was absent when p started: all that is on disk beyond the
\* working directory is p's
RootWasAbsent(p) == DOMAIN fs \ created[p] = DOMAIN BaseFs

\* C2: once _build_structure has returned for a tree and a root that did
\* not exist, the paths it created are exactly the nodes of the tree, the
\* root node included, each a directory or a file with the leaf's content.
C2_EveryNodeOnDisk ==
  \A p \in Procs :
    (pc[p] = "Returned" /\ RootWasAbsent(p)) =>
      LET nodes == NodeEntries(Resolve(project_root[p]), structure[p]) IN
      /\ created[p] = { e[1] : e \in nodes }
      /\ \A e \in nodes : e[1] \in DOMAIN fs /\ fs[e[1]] = e[2]

\* C2 for the trees with at least one child: there it holds, empty
\* directories below the root included.
C2_NonEmptyTreeOnDisk ==
  \A p \in Procs :
    (pc[p] = "Returned" /\ RootWasAbsent(p) /\ structure[p].children /= <<>>) =>
      LET nodes == NodeEntries(Resolve(project_root[p]), structure[p]) IN
      /\ created[p] = { e[1] : e \in nodes }
      /\ \A e \in nodes : e[1] \in DOMAIN fs /\ fs[e[1]] = e[2]

\* C3: invocations one after the other on the same root, absent at first.
\* An invocation that runs to Done has created the root; once an invocation
\* has created the root, no step taken after a later invocation has started
\* changes the filesystem (same paths, same contents), and the later
\* invocation creates nothing, writes nothing and can only end in
\* Aborted(AlreadyExists) (or, from the command line with a type outside the
\* choices, in the usage error).
C3_OnlyFirstMutates ==
  [][\A p \in Procs, q \in Procs :
       /\ (pc'[p] = "Done") => Resolve(project_root'[p]) \in created'[p]
       /\ (p < q /\ Resolve(project_root[p]) \in created[p] /\ pc[q] /= "Start")
            => /\ fs' = fs
               /\ created'[q] = {}
               /\ wrote'[q] = {}
               /\ pc'[q] \in Terminal => pc'[q] \in {"AbortedExists", "UsageError"}
               /\ pc'[q] = "AbortedExists" => exitStatus'[q] = 1
    ]_vars

\* a successful api invocation followed by a refused portfolio invocation
C3_Witness ==
  /\ pc[1] = "Done"
  /\ project_type[1] = "api"
  /\ pc[2] = "AbortedExists"
  /\ project_type[2] = "portfolio"
  /\ created[2] = {}
  /\ fs[Resolve(project_root[1] \o <<"app", "__init__.py">>)] = FileEntry(Empty)

\* C4: whatever the project name, every path an invocation creates or
\* writes lies below the working directory, in one of its direct children.
C4_CreatedInsideCwdChild ==
  \A p \in Procs :
    \A path \in created[p] \union wrote[p] :
      IsPrefix(Cwd, path) /\ Len(path) > Len(Cwd)

\* C5: an invocation with a type outside the catalog ends with the
\* unknown-type error (the usage error of the command line, or the error
\* line of create()), a non-zero exit status and nothing created, whether
\* or not the root exists.
C5_UnknownTypeRejectedFirst ==
  \A p \in Procs :
    /\ pc[p] = "UsageError" => (exitStatus[p] = 2 /\ created[p] = {} /\ checks[p] = 0)
    /\ (project_type[p] \notin TypeChoices /\ pc[p] \in Terminal)
         => /\ pc[p] = "AbortedType"
            /\ out[p][Len(out[p])] = UnknownLine
            /\ exitStatus[p] = 1
            /\ created[p] = {}
            /\ wrote[p] = {}

\* C6: the step on which a mkdir, an open or a write fails ends the
\* invocation in Aborted(IOError) with exit status 1: nothing that was on
\* disk is removed or altered, what the step adds lies on the way to the
\* failing path, no line is printed (no progress line, no summary), the
\* pending paths stay pending; afterwards the invocation does nothing more.
\* No step at all removes or alters an entry.
C6_AbortOnIOFailure ==
  [][\A p \in Procs :
       /\ (pc[p] = "Materializing" /\ pc'[p] = "AbortedIO")
            => /\ \A path \in DOMAIN fs' \ DOMAIN fs :
                    IsPrefix(path, Resolve(Head(todo[p]).path))
               /\ created[p] \subseteq DOMAIN fs'
               /\ out'[p] = out[p]
               /\ \A i \in 1..Len(out'[p]) : out'[p][i] /= SummaryLine
               /\ todo'[p] = todo[p]
               /\ exitStatus'[p] = 1
       /\ (pc[p] = "AbortedIO")
            => /\ pc'[p] = "AbortedIO"
               /\ out'[p] = out[p]
               /\ todo'[p] = todo[p]
               /\ created'[p] = created[p]
               /\ wrote'[p] = wrote[p]
               /\ exitStatus'[p] = 1
       /\ \A path \in DOMAIN fs : path \in DOMAIN fs' /\ fs'[path] = fs[path]
    ]_vars

\* an invocation stopped in the middle of the tree: files written, paths
\* pending, and what it created still there with the content it wrote
C6_Witness ==
  \E p \in Procs :
    /\ pc[p] = "AbortedIO"
    /\ Len(todo[p]) > 1
    /\ Len(out[p]) > 2
    /\ wrote[p] /= {}
    /\ Resolve(project_root[p] \o <<"app", "main.py">>) \in wrote[p]
    /\ fs[Resolve(project_root[p] \o <<"app", "main.py">>)] = FileEntry(Text("_get_main_py"))

\* C7: with invocations running side by side, the test of the root is the
\* only guard.  An invocation whose test found the root absent is started
\* on its structure whatever is on disk by then, and each of its mkdir and
\* file steps succeeds whether or not the path already exists, leaving the
\* path on disk as its own node says (an existing file is replaced); it
\* never ends in Aborted(AlreadyExists), which only an invocation whose own
\* test found the root can reach, and the root is tested once.
C7_PreflightOnlyGuard ==
  [][\A p \in Procs :
       /\ (pc[p] = "PreflightChecked" /\ ~rootExisted[p] /\ project_type[p] \in TypeChoices
             /\ pc'[p] /= "PreflightChecked")
            => pc'[p] = "Materializing"
       /\ (pc[p] = "Materializing" /\ todo'[p] /= todo[p])
            => /\ pc'[p] = "Materializing"
               /\ Resolve(Head(todo[p]).path) \in DOMAIN fs'
               /\ fs'[Resolve(Head(todo[p]).path)] = EntryOf(Head(todo[p]).node)
       /\ pc'[p] = "AbortedExists" => rootExisted'[p]
       /\ pc'[p] /= "AbortedIO"
       /\ checks'[p] <= 1
    ]_vars

\* two invocations that both found the root absent: q created the root, p
\* created directories in it, opened for writing files that were already
\* there, and ran to Done
C7_Witness ==
  \E p \in Procs, q \in Procs :
    /\ p /= q
    /\ ~rootExisted[p] /\ ~rootExisted[q]
    /\ pc[p] = "Done"
    /\ pc[q] = "Materializing"
    /\ Resolve(project_root[q]) \in created[q]
    /\ \E d \in created[p] : fs[d].kind = "dir"
    /\ wrote[p] \ created[p] /= {}

\* the transitions of the state machine of section 4.2, after the start of
\* the process
ClaimedEdges ==
  { <<"Start", "Idle">>, <<"Start", "UsageError">>,
    <<"Idle", "PreflightChecked">>,
    <<"PreflightChecked", "Materializing">>,
    <<"PreflightChecked", "AbortedExists">>,
    <<"Materializing", "Done">>,
    <<"Materializing", "AbortedIO">> }

HasSummary(lines) == \E i \in 1..Len(lines) : lines[i] = SummaryLine

\* what C8 says of one step of invocation p
OneShotStep(p) ==
  /\ pc'[p] /= pc[p] => <<pc[p], pc'[p]>> \in ClaimedEdges
  /\ checks'[p] <= 1
  /\ pc'[p] \notin {"Start", "Idle", "UsageError"} => checks'[p] = 1
  /\ (created'[p] \union wrote'[p] /= {})
       => (checks'[p] = 1 /\ pc'[p] \in {"Materializing", "Done", "AbortedIO"})
  /\ HasSummary(out'[p]) <=> pc'[p] = "Done"
  /\ pc'[p] = "Done" => (todo'[p] = <<>> /\ exitStatus'[p] = 0)

\* C8: every invocation moves along Idle -> PreflightChecked ->
\* (Materializing -> Done | Materializing -> Aborted(IOError) |
\* Aborted(AlreadyExists)) only: the root is tested once, before anything is
\* created, no state is entered again, the summary is printed in Done alone
\* and with nothing pending, and an invocation that has started reaches Done
\* or Aborted.
C8_OneShotMachine ==
  /\ [][\A p \in Procs : OneShotStep(p)]_vars
  /\ \A p \in Procs : (pc[p] = "Idle") ~> (pc[p] \in Aborted \union {"Done"})

\* C8 for the invocations whose type is one of the catalog: there it holds.
C8_CatalogTypesOneShot ==
  /\ [][\A p \in Procs : project_type'[p] \in TypeChoices => OneShotStep(p)]_vars
  /\ \A p \in Procs : (pc[p] = "Idle") ~> (pc[p] \in Aborted \union {"Done"})

\* the File nodes of a tree, and its leaves (files and empty directories)
RECURSIVE CountFiles(_), CountFilesFrom(_, _), CountLeaves(_), CountLeavesFrom(_, _)
CountFiles(node) ==
  IF node.kind = "file" THEN 1 ELSE CountFilesFrom(node.children, 1)
CountFilesFrom(children, i) ==
  IF i > Len(children) THEN 0
  ELSE CountFiles(children[i][2]) + CountFilesFrom(children, i + 1)
CountLeaves(node) ==
  IF node.children = <<>> THEN 1 ELSE CountLeavesFrom(node.children, 1)
CountLeavesFrom(children, i) ==
  IF i > Len(children) THEN 0
  ELSE CountLeaves(children[i][2]) + CountLeavesFrom(children, i + 1)

\* the places of the progress lines among the lines printed
ProgressLines(lines) ==
  { i \in 1..Len(lines) : lines[i] /= <<>> /\ lines[i][1] = "Created:" }

\* the path a progress line names, taken relative to the root of p
Reported(p, i) == Resolve(project_root[p] \o Tail(out[p][i]))

\* C9 as claimed: a Done invocation has printed one progress line for each
\* path it created, naming it relative to the root, and as many lines as
\* the tree of its type has leaves.
C9_LinePerCreatedPath ==
  \A p \in Procs :
    pc[p] = "Done" =>
      /\ { Reported(p, i) : i \in ProgressLines(out[p]) } = created[p]
      /\ Cardinality(ProgressLines(out[p])) = Cardinality(created[p])
      /\ Cardinality(ProgressLines(out[p])) = CountLeaves(structure[p])

\* C9 as amended: a Done invocation has printed one progress line for each
\* file it wrote and none for a directory, each naming the file relative to
\* the root; their number is the number of File nodes of the tree of its
\* type plus the number of root-level files written after the tree.
C9_LinePerFile ==
  \A p \in Procs :
    pc[p] = "Done" =>
      /\ { Reported(p, i) : i \in ProgressLines(out[p]) } = wrote[p]
      /\ Cardinality(ProgressLines(out[p])) = Cardinality(wrote[p])
      /\ wrote[p] = { x \in created[p] : fs[x].kind = "file" }
      /\ \E d \in created[p] : fs[d].kind = "dir"
      /\ Cardinality(ProgressLines(out[p]))
           = CountFiles(structure[p]) + Len(RootFilesOf(project_type[p], target))

\* a portfolio invocation that is Done: 59 + 7 lines, and empty directories
\* on disk that no line names
C9_Witness ==
  \E p \in Procs :
    /\ pc[p] = "Done"
    /\ project_type[p] = "portfolio"
    /\ Cardinality(ProgressLines(out[p])) = 66
    /\ IsDir(fs, Resolve(project_root[p] \o <<"static", "img", "logo">>))
    /\ CountLeaves(structure[p]) = 63

\* the layout of a type: the paths, relative to the root, of the nodes of
\* its structure and of its root-level files
LayoutOf(type) ==
  ({ e[1] : e \in NodeEntries(<<>>, StructureOf(type)) } \ {<<>>})
    \union { <<RootFilesOf(type, target)[i][1]>> :
               i \in 1..Len(RootFilesOf(type, target)) }

\* what p created below its root, relative to the root
CreatedBelowRoot(p) ==
  { RelativeTo(x, Resolve(project_root[p])) :
      x \in { y \in created[p] : IsPrefix(Resolve(project_root[p]), y)
                                  /\ y /= Resolve(project_root[p]) } }

\* the routes that only the api structure has
ApiOnly == { <<"app", "api", "routes", "users.py">>, <<"app", "api", "routes", "auth.py">> }

\* C10 as claimed: a Done invocation creates the layout of its type, and
\* every path a Done api invocation created is in the portfolio layout.
C10_ApiSubsetOfPortfolio ==
  \A p \in Procs :
    pc[p] = "Done" =>
      /\ CreatedBelowRoot(p) = LayoutOf(project_type[p])
      /\ project_type[p] = "api" => CreatedBelowRoot(p) \subseteq LayoutOf("portfolio")

\* C10 as amended: a Done invocation creates the layout of its type, and
\* the paths a Done api invocation created are in the portfolio layout
\* except app/api/routes/users.py and app/api/routes/auth.py, which it
\* always creates and which the portfolio layout does not have.
C10_ApiSubsetButRoutes ==
  \A p \in Procs :
    pc[p] = "Done" =>
      /\ CreatedBelowRoot(p) = LayoutOf(project_type[p])
      /\ project_type[p] = "api" => CreatedBelowRoot(p) \ LayoutOf("portfolio") = ApiOnly

\* an api invocation that is Done, with users.py on disk
C10_Witness ==
  \E p \in Procs :
    /\ pc[p] = "Done"
    /\ project_type[p] = "api"
    /\ Resolve(project_root[p] \o <<"app", "api", "routes", "users.py">>) \in created[p]
    /\ <<"app", "api", "routes", "users.py">> \notin LayoutOf("portfolio")

\* the Directory nodes of a tree, the root node included
RECURSIVE CountDirs(_), CountDirsFrom(_, _)
CountDirs(node) ==
  IF node.kind = "file" THEN 0 ELSE 1 + CountDirsFrom(node.children, 1)
CountDirsFrom(children, i) ==
  IF i > Len(children) THEN 0
  ELSE CountDirs(children[i][2]) + CountDirsFrom(children, i + 1)

\* the files and the directories an invocation brought into existence
FilesCreatedBy(p) == { x \in created[p] : fs[x].kind = "file" }
DirsCreatedBy(p) == { x \in created[p] : fs[x].kind = "dir" }

\* the directories above the root of p that were missing when p started:
\* they depend on the name and on the filesystem p started in, not on the type
AncestorsMissingAtStart(p) ==
  { SubSeq(Resolve(project_root[p]), 1, n) : n \in 0..(Len(Resolve(project_root[p])) - 1) }
    \ (DOMAIN fs \ created[p])

\* the files and the directories of the layout of a type
FilesOfType(type) == CountFiles(StructureOf(type)) + Len(RootFilesOf(type, target))
DirsOfType(type) == CountDirs(StructureOf(type))

\* C11: a Done invocation has created as many files as the layout of its
\* type has, and as many directories as that layout has plus the missing
\* directories above the root; so on one name and one starting filesystem a
\* Done portfolio invocation has created strictly more files and strictly
\* more directories than a Done api invocation does, and a Done api
\* invocation strictly fewer than a Done portfolio invocation does.
C11_PortfolioStrictlyMore ==
  \A p \in Procs :
    pc[p] = "Done" =>
      LET above == Cardinality(AncestorsMissingAtStart(p))
          nfiles == Cardinality(FilesCreatedBy(p))
          ndirs == Cardinality(DirsCreatedBy(p))
      IN  /\ nfiles = FilesOfType(project_type[p])
          /\ ndirs = DirsOfType(project_type[p]) + above
          /\ project_type[p] = "portfolio"
               => (nfiles > FilesOfType("api") /\ ndirs > DirsOfType("api") + above)
          /\ project_type[p] = "api"
               => (nfiles < FilesOfType("portfolio")
                     /\ ndirs < DirsOfType("portfolio") + above)

\* a Done portfolio invocation on the name a/b: 66 files and 25 directories
\* of the layout, and the directory a above the root, against 16 and 6
C11_Witness ==
  \E p \in Procs :
    /\ pc[p] = "Done"
    /\ project_type[p] = "portfolio"
    /\ target = <<"a", SEP, "b">>
    /\ Cardinality(FilesCreatedBy(p)) = 66
    /\ Cardinality(DirsCreatedBy(p)) = 26
    /\ FilesOfType("api") = 16
    /\ DirsOfType("api") = 6

\* the pre-order walk of a tree placed at a path, in the order of its
\* mappings: <<"mkdir", directory>> for a Directory node and then the walk
\* of its children; <<"mkdir", parent>>, <<"write", file>> for a File node
RECURSIVE WalkOf(_, _), WalkFrom(_, _, _)
WalkOf(path, node) ==
  IF node.kind = "dir"
  THEN << <<"mkdir", Resolve(path)>> >> \o WalkFrom(path, node.children, 1)
  ELSE << <<"mkdir", Resolve(Parent(path))>>, <<"write", Resolve(path)>> >>
WalkFrom(base, children, i) ==
  IF i > Len(children) THEN <<>>
  ELSE WalkOf(Append(base, children[i][1]), children[i][2]) \o WalkFrom(base, children, i + 1)

\* the writes of root-level files, in their order
RootWrites(base, files) ==
  [i \in 1..Len(files) |-> <<"write", Resolve(Append(base, files[i][1]))>>]

IsWrite(c) == c[1] = "write"
IsProgressLine(line) == line /= <<>> /\ line[1] = "Created:"

\* the calls of p that did not fail, as <<op, path relative to the root>>,
\* and the progress lines of p, in order
CallsDone(p) ==
  LET ok == SelectSeq(calls[p], LAMBDA c : c.op /= "failed")
  IN  [i \in 1..Len(ok) |-> <<ok[i].op, RelativeTo(ok[i].path, Resolve(project_root[p]))>>]
CallsBelowRoot(p) ==
  \A i \in 1..Len(calls[p]) : IsPrefix(Resolve(project_root[p]), calls[p][i].path)
ReportedSeq(p) == SelectSeq(out[p], IsProgressLine)

\* the progress lines that name the files of a walk, relative to a root
LinesOf(walk, root) ==
  LET w == SelectSeq(walk, IsWrite)
  IN  [i \in 1..Len(w) |-> CreatedLine(RelativeTo(w[i][2], Resolve(root)))]

IsPrefixSeq(a, b) == Len(a) <= Len(b) /\ SubSeq(b, 1, Len(a)) = a

\* what a portfolio invocation does, by the portfolio definition: its
\* calls and its progress lines, relative to the root (the names of the
\* root-level files do not depend on the project name), and its entries
PortfolioWalk ==
  WalkFrom(<<>>, PortfolioStructure.children, 1)
    \o RootWrites(<<>>, PortfolioRootFiles(<<>>))
PortfolioLines == LinesOf(PortfolioWalk, <<>>)
PortfolioEntries(root) ==
  NodeEntries(Resolve(root), PortfolioStructure)
    \union { <<Resolve(Append(root, PortfolioRootFiles(target)[i][1])),
               EntryOf(PortfolioRootFiles(target)[i][2])>> :
               i \in 1..Len(PortfolioRootFiles(target)) }

BeforeCall(p, i) ==
  (DOMAIN fs \ created[p]) \union UNION { calls[p][j].made : j \in 1..(i - 1) }

\* each call of p in its place: a write creates its file and nothing else,
\* the file was not there and its parent directory was; a mkdir leaves its
\* directory on disk, and of what it creates every parent was there or is
\* created with it (parents first)
CallsWellOrdered(p) ==
  \A i \in 1..Len(calls[p]) :
    LET c == calls[p][i]
        before == BeforeCall(p, i)
    IN  /\ c.op = "write"
             => (c.made = {c.path} /\ c.path \notin before /\ Parent(c.path) \in before)
        /\ c.op = "mkdir"
             => /\ c.path \in before \union c.made
                /\ \A y \in c.made : y \notin before /\ Parent(y) \in before \union c.made

\* C13: _build_structure walks its tree in pre-order, in the order of the
\* mappings: its calls are at every moment a prefix of the pre-order walk
\* of the tree and its progress lines a prefix of the tree's files in that
\* order, and both are complete when it returns; every directory is on disk
\* before anything is created in it, and every file is written into an
\* existing parent directory at a path that did not exist.
C13_PreOrderWalk ==
  \A p \in Procs :
    pc[p] \in {"Materializing", "Returned"} =>
      LET walk == WalkFrom(<<>>, structure[p].children, 1)
          lines == LinesOf(walk, <<>>)
      IN  /\ CallsBelowRoot(p)
          /\ IsPrefixSeq(CallsDone(p), walk)
          /\ IsPrefixSeq(ReportedSeq(p), lines)
          /\ CallsWellOrdered(p)
          /\ pc[p] = "Returned" => (CallsDone(p) = walk /\ ReportedSeq(p) = lines)

\* C13 for create() on the trees of the catalog: the walk of the tree of
\* the type, then the writes of the root-level files in their order.
C13_CatalogWalk ==
  \A p \in Procs :
    (pc[p] = "Done" /\ project_type[p] \in TypeChoices) =>
      LET walk == WalkFrom(<<>>, structure[p].children, 1)
                    \o RootWrites(<<>>, RootFilesOf(project_type[p], target))
      IN  /\ CallsDone(p) = walk
          /\ ReportedSeq(p) = LinesOf(walk, <<>>)
          /\ CallsWellOrdered(p)

\* _build_structure has returned for the tree {b: "x", a: {a: ""}} on an
\* absent root: b written first, then the directory a, then a/a
C13_Witness ==
  \E p \in Procs :
    /\ pc[p] = "Returned"
    /\ RootWasAbsent(p)
    /\ structure[p] = Dir(<< <<"b", File(Text("x"))>>,
                             <<"a", Dir(<< <<"a", File(Empty)>> >>)>> >>)
    /\ CallsDone(p) = << <<"mkdir", <<>>>>, <<"write", <<"b">>>>,
                         <<"mkdir", <<"a">>>>,
                         <<"mkdir", <<"a">>>>, <<"write", <<"a", "a">>>> >>
    /\ ReportedSeq(p) = <<CreatedLine(<<"b">>), CreatedLine(<<"a", "a">>)>>
    /\ calls[p][1].made = {Resolve(project_root[p])}

====
